---- MODULE Spec2Model ----
(***************************************************************************)
(* Crisis decision game (app03.py): the Streamlit session state and the    *)
(* handlers of its screens.  One action is one click of the player: the    *)
(* script run that processes the click, followed, when the handler ends in *)
(* st.rerun(), by the script run that renders the next screen (some        *)
(* screens write session state while rendering).                           *)
(*                                                                         *)
(* Gauges are Python floats in the source.  Here they are exact fixed-     *)
(* point numbers: the integer v stands for v / Unit.  The balance and card *)
(* parameters that are fractions in the content files are scaled integers  *)
(* (tenths or hundredths, stated at each definition).                      *)
(***************************************************************************)
EXTENDS Integers, Sequences, FiniteSets, TLC

VARIABLES
    scenarios_data,        \* cached result of load_json_data('scenarios.json')
    config,                \* st.session_state.config
    game_initialized,      \* st.session_state.game_initialized: "True", "False",
                           \* or "absent" when the session has no such key
    screen,                \* st.session_state.screen
    metrics,               \* st.session_state.metrics
    budget,                \* st.session_state.budget
    human_resources,       \* st.session_state.human_resources
    max_crises,            \* st.session_state.max_crises
    crisis_history,        \* st.session_state.crisis_history
    news_ticker,           \* st.session_state.news_ticker
    current_crisis_index,  \* st.session_state.current_crisis_index
    crisis_sequence,       \* st.session_state.crisis_sequence
    selected_scenario_id,  \* st.session_state.selected_scenario_id
    decision,              \* st.session_state.decision
    results,               \* st.session_state.results
    immediate_results,     \* history variable: results as stored by decision_screen
    last_click,            \* history variable: the button whose click the last
                           \* script run processed
    drawn_factor,          \* history variable: the random_factor the last script
                           \* run drew in calculate_effects, in tenths (0 when
                           \* it drew none)
    outcomes,              \* history variable: per resolved crisis, the card
                           \* that was applied with its two prices, or the skip
    SCENARIOS_FILE,        \* editor.py: the text of scenarios.json on disk
    CONFIG_FILE,           \* editor.py: the text of config.json on disk
    mode,                  \* editor.py: st.session_state.mode
    uploaded_file,         \* editor.py: the zip held by the file uploader
    widgets,               \* editor.py: what the user entered in the widgets
                           \* of the editing form (Streamlit widget state)
    rerun_pending,         \* editor.py: st.rerun() was called and the script
                           \* run it asks for has not happened yet
    sidebar_message,       \* editor.py: what the restore branch showed in the
                           \* last script run
    editor_click,          \* history variable: what the user did to cause the
                           \* last script run of the editor
    created                \* history variable: the ids created by the add
                           \* form, not deleted and not replaced by an upload
                           \* since

vars == <<scenarios_data, config, game_initialized, screen, metrics, budget,
          human_resources, max_crises, crisis_history, news_ticker,
          current_crisis_index, crisis_sequence, selected_scenario_id,
          decision, results, immediate_results, last_click, drawn_factor,
          outcomes, SCENARIOS_FILE, CONFIG_FILE, mode, uploaded_file, widgets,
          rerun_pending, sidebar_message, editor_click, created>>

\* the variables of the content editor (editor.py), a program of its own
editor_vars == <<SCENARIOS_FILE, CONFIG_FILE, mode, uploaded_file, widgets,
                 rerun_pending, sidebar_message, editor_click, created>>

\* the variables of the game (app03.py)
game_vars == <<scenarios_data, config, game_initialized, screen, metrics, budget,
               human_resources, max_crises, crisis_history, news_ticker,
               current_crisis_index, crisis_sequence, selected_scenario_id,
               decision, results, immediate_results, last_click, drawn_factor,
               outcomes>>

-----------------------------------------------------------------------------
(* Bounds of the model *)

\* largest number of entries of scenarios.json
NumScenarios == 2
\* largest initial_settings.max_crises
MaxCrises == 2
\* clicks on "start" that fail before the model stops counting them
MaxFailedStarts == 2

-----------------------------------------------------------------------------
(* Values *)

\* one gauge point; every gauge value v of the model stands for v / Unit
Unit == 200000

\* Python None in a slot that otherwise holds a dict, and the empty dict {}
NoneDict == [k \in {} |-> 0]
EmptyDict == [k \in {} |-> 0]
\* Python None in selected_scenario_id (scenario ids are 1, 2, ...)
NoScenario == 0

\* the value of a session key that was never stored
NoKey == "absent"

\* the game's sessions run without the editor: its variables hold nothing
EditorIdle ==
    /\ SCENARIOS_FILE = NoKey
    /\ CONFIG_FILE = NoKey
    /\ mode = NoKey
    /\ uploaded_file = NoKey
    /\ widgets = NoKey
    /\ rerun_pending = FALSE
    /\ sidebar_message = NoKey
    /\ editor_click = "none"
    /\ created = {}

Gauges == {"security", "freedom", "public_trust", "resilience", "fatigue"}

\* the keys of screen_functions
screen_functions ==
    {"start_game", "story", "advisors", "decision", "immediate", "delayed",
     "report", "game_end"}

Min(a, b) == IF a < b THEN a ELSE b
Max(a, b) == IF a > b THEN a ELSE b
\* a clamp that lost its max(0, .)
ClampWithoutFloor(x) == Min(100 * Unit, x)
\* min(100, max(0, x))
Clamp(x) == Min(100 * Unit, Max(0, x))

-----------------------------------------------------------------------------
(* Content: config.json *)

\* game_balance.THREAT_SEVERITY
THREAT_SEVERITY == 80
\* game_balance.RANDOM_FACTOR_RANGE, in tenths: [0.5, 1.5]
RANDOM_FACTOR_RANGE == <<5, 15>>
\* game_balance.SCOPE_MULTIPLIERS, in tenths
SCOPE_MULTIPLIERS == [targeted |-> 7, general |-> 13]
\* game_balance.DURATION_MULTIPLIERS, in tenths
DURATION_MULTIPLIERS == [short |-> 5, medium |-> 10, long |-> 15]
\* game_balance.SAFEGUARD_QUALITY_PER_ITEM, in hundredths
SAFEGUARD_QUALITY_PER_ITEM == 15
\* game_balance.TRUST_BOOST_FOR_TRANSPARENCY
TRUST_BOOST_FOR_TRANSPARENCY == 10
\* game_balance.FATIGUE_PER_DURATION
FATIGUE_PER_DURATION == [targeted |-> 5, general |-> 10]

\* initial_settings.metrics
InitialMetrics ==
    [security |-> 50 * Unit, freedom |-> 50 * Unit, public_trust |-> 50 * Unit,
     resilience |-> 50 * Unit, fatigue |-> 0]
\* the values of initial_settings.budget the model starts from
InitialBudgets == {40, 100}
\* initial_settings.hr
InitialHr == 50

\* the config.json files the model starts from
Configs ==
    { [initial_settings |->
          [metrics |-> InitialMetrics, budget |-> b, hr |-> InitialHr,
           max_crises |-> m]] : b \in InitialBudgets, m \in 1..MaxCrises }

-----------------------------------------------------------------------------
(* Content: scenarios.json *)

\* ActionCard; side_effect_risk and safeguard_reduction in tenths
CardA ==
    [id |-> "A", name |-> "Aksiyon Karti A", cost |-> 60, hr_cost |-> 20,
     speed |-> "fast", security_effect |-> 40, freedom_cost |-> 30,
     side_effect_risk |-> 4, safeguard_reduction |-> 5]
CardC ==
    [id |-> "C", name |-> "Aksiyon Karti C", cost |-> 40, hr_cost |-> 30,
     speed |-> "slow", security_effect |-> 20, freedom_cost |-> 5,
     side_effect_risk |-> 1, safeguard_reduction |-> 8]

\* one entry of scenarios.json
ScenarioEntry ==
    [advisors |-> <<"Danisman 1", "Danisman 2">>,
     action_cards |-> <<CardA, CardC>>]

\* the scenarios.json files the model starts from: n entries, keys 1..n
ScenarioFiles == { [i \in 1..n |-> ScenarioEntry] : n \in 0..NumScenarios }

\* a loader that takes every entry
get_scenarios_unfiltered == scenarios_data
\* get_scenarios(): the entries that have both keys, under their own key
get_scenarios ==
    [key \in {k \in DOMAIN scenarios_data :
                 {"action_cards", "advisors"} \subseteq DOMAIN scenarios_data[k]}
        |-> scenarios_data[key]]

-----------------------------------------------------------------------------
(* Session start *)

\* initialize_game_state(), first script run of the session, with config.json
\* one of the given files
InitWith(configs) ==
    /\ scenarios_data \in ScenarioFiles
    /\ config \in configs
    /\ game_initialized = "True"
    /\ screen = "start_game"
    /\ metrics = config.initial_settings.metrics
    /\ budget = config.initial_settings.budget
    /\ human_resources = config.initial_settings.hr
    /\ max_crises = config.initial_settings.max_crises
    /\ crisis_history = <<>>
    /\ news_ticker = <<[kind |-> "start", name |-> ""]>>
    /\ current_crisis_index = 0
    /\ crisis_sequence = <<>>
    /\ selected_scenario_id = NoScenario
    /\ decision = EmptyDict
    /\ results = NoneDict
    /\ immediate_results = NoneDict
    /\ last_click = "none"
    /\ drawn_factor = 0
    /\ outcomes = <<>>
    /\ EditorIdle

\* the session start of the game
Init == InitWith(Configs)

-----------------------------------------------------------------------------
(* Game logic *)

\* an insertion that never drops an entry
add_news_unbounded(ticker, headline) == <<headline>> \o ticker

\* add_news(headline): insert at the front, drop the last entry beyond five
add_news(ticker, headline) ==
    LET inserted == <<headline>> \o ticker
    IN  IF Len(inserted) > 5 THEN SubSeq(inserted, 1, Len(inserted) - 1)
        ELSE inserted

\* len(safeguards) * SAFEGUARD_QUALITY_PER_ITEM, in hundredths
safeguard_quality(safeguards) == Cardinality(safeguards) * SAFEGUARD_QUALITY_PER_ITEM

\* a change that adds the side effect instead of subtracting it
security_change_risk_added(action, random_factor) ==
    THREAT_SEVERITY * action.security_effect * (Unit \div 100)
        + action.side_effect_risk * random_factor * 20 * (Unit \div 100)
\* THREAT_SEVERITY * security_effect / 100 - side_effect_risk * random_factor * 20
security_change(action, random_factor) ==
    THREAT_SEVERITY * action.security_effect * (Unit \div 100)
        - action.side_effect_risk * random_factor * 20 * (Unit \div 100)

\* a cost that every safeguard raises
freedom_cost_raised_by_safeguards(action, scope, duration, safeguards) ==
    action.freedom_cost * SCOPE_MULTIPLIERS[scope] * DURATION_MULTIPLIERS[duration]
        * (1000 + safeguard_quality(safeguards) * action.safeguard_reduction)
        * (Unit \div 100000)
\* a cost that no safeguard reduces
freedom_cost_without_safeguards(action, scope, duration, safeguards) ==
    action.freedom_cost * SCOPE_MULTIPLIERS[scope] * DURATION_MULTIPLIERS[duration]
        * 1000 * (Unit \div 100000)
\* freedom_cost * scope_multiplier * duration_multiplier
\*     * (1 - safeguard_quality * safeguard_reduction)
freedom_cost(action, scope, duration, safeguards) ==
    action.freedom_cost * SCOPE_MULTIPLIERS[scope] * DURATION_MULTIPLIERS[duration]
        * (1000 - safeguard_quality(safeguards) * action.safeguard_reduction)
        * (Unit \div 100000)

public_trust_change(action, scope, duration, safeguards) ==
    (IF "transparency" \in safeguards THEN TRUST_BOOST_FOR_TRANSPARENCY * Unit ELSE 0)
        - freedom_cost(action, scope, duration, safeguards) \div 2

resilience_change(action, safeguards) ==
    IF action.speed = "slow"
    THEN action.security_effect * safeguard_quality(safeguards) * (Unit \div 200)
    ELSE 5 * Unit

fatigue_change(scope, duration) ==
    DURATION_MULTIPLIERS[duration] * FATIGUE_PER_DURATION[scope] * (Unit \div 10)

\* headlines pushed from the thresholds on, not only above them
effects_news_from_threshold(ticker, action, scope, duration, safeguards, random_factor) ==
    LET t1 == IF security_change(action, random_factor) >= 15 * Unit
              THEN add_news(ticker, [kind |-> "security", name |-> action.name])
              ELSE ticker
        t2 == IF freedom_cost(action, scope, duration, safeguards) >= 15 * Unit
              THEN add_news(t1, [kind |-> "freedom", name |-> ""])
              ELSE t1
    IN  IF "transparency" \in safeguards
        THEN add_news(t2, [kind |-> "transparency", name |-> ""])
        ELSE t2

\* the headlines calculate_effects pushes, in its order
effects_news(ticker, action, scope, duration, safeguards, random_factor) ==
    LET t1 == IF security_change(action, random_factor) > 15 * Unit
              THEN add_news(ticker, [kind |-> "security", name |-> action.name])
              ELSE ticker
        t2 == IF freedom_cost(action, scope, duration, safeguards) > 15 * Unit
              THEN add_news(t1, [kind |-> "freedom", name |-> ""])
              ELSE t1
    IN  IF "transparency" \in safeguards
        THEN add_news(t2, [kind |-> "transparency", name |-> ""])
        ELSE t2

\* the changes applied a second time on top of their own outcome
calculate_effects_twice(action, scope, duration, safeguards, random_factor) ==
    LET sec == security_change(action, random_factor)
        fre == freedom_cost(action, scope, duration, safeguards)
        pub == public_trust_change(action, scope, duration, safeguards)
        res == resilience_change(action, safeguards)
        fat == fatigue_change(scope, duration)
    IN  [security |-> Clamp(Clamp(metrics.security + sec) + sec),
         freedom |-> Clamp(Clamp(metrics.freedom - fre) - fre),
         public_trust |-> Clamp(Clamp(metrics.public_trust + pub) + pub),
         resilience |-> Clamp(Clamp(metrics.resilience + res) + res),
         fatigue |-> Clamp(Clamp(metrics.fatigue + fat) + fat),
         counter_factual |-> IF action.id = "A" THEN "less_costly_alternative"
                             ELSE "proportionate",
         budget |-> budget - action.cost,
         human_resources |-> human_resources - action.hr_cost]

\* effects that leave the resources as they are
calculate_effects_unbilled(action, scope, duration, safeguards, random_factor) ==
    [security |-> Clamp(metrics.security + security_change(action, random_factor)),
     freedom |-> Clamp(metrics.freedom
                         - freedom_cost(action, scope, duration, safeguards)),
     public_trust |-> Clamp(metrics.public_trust
                         + public_trust_change(action, scope, duration, safeguards)),
     resilience |-> Clamp(metrics.resilience + resilience_change(action, safeguards)),
     fatigue |-> Clamp(metrics.fatigue + fatigue_change(scope, duration)),
     counter_factual |-> IF action.id = "A" THEN "less_costly_alternative"
                         ELSE "proportionate",
     budget |-> budget,
     human_resources |-> human_resources]

\* the dict calculate_effects returns
calculate_effects(action, scope, duration, safeguards, random_factor) ==
    [security |-> Clamp(metrics.security + security_change(action, random_factor)),
     freedom |-> Clamp(metrics.freedom
                         - freedom_cost(action, scope, duration, safeguards)),
     public_trust |-> Clamp(metrics.public_trust
                         + public_trust_change(action, scope, duration, safeguards)),
     resilience |-> Clamp(metrics.resilience + resilience_change(action, safeguards)),
     fatigue |-> Clamp(metrics.fatigue + fatigue_change(scope, duration)),
     counter_factual |-> IF action.id = "A" THEN "less_costly_alternative"
                         ELSE "proportionate",
     budget |-> budget - action.cost,
     human_resources |-> human_resources - action.hr_cost]

\* a skipped turn that reports the resources as used up
skip_turn_billed ==
    [security |-> Clamp(metrics.security - 25 * Unit),
     freedom |-> metrics.freedom,
     public_trust |-> Clamp(metrics.public_trust - 20 * Unit),
     resilience |-> Clamp(metrics.resilience - 10 * Unit),
     fatigue |-> Clamp(metrics.fatigue + 15 * Unit),
     counter_factual |-> "resources_wasted",
     budget |-> 0,
     human_resources |-> 0]
\* the dict calculate_skip_turn_effects returns
calculate_skip_turn_effects ==
    [security |-> Clamp(metrics.security - 25 * Unit),
     freedom |-> metrics.freedom,
     public_trust |-> Clamp(metrics.public_trust - 20 * Unit),
     resilience |-> Clamp(metrics.resilience - 10 * Unit),
     fatigue |-> Clamp(metrics.fatigue + 15 * Unit),
     counter_factual |-> "resources_wasted",
     budget |-> budget,
     human_resources |-> human_resources]

\* a bonus that does not look at the action
delayed_bonus_flat == 5 * Unit
\* the bonus delayed_screen adds to security and to resilience
delayed_bonus ==
    IF "action" \in DOMAIN decision /\ decision["action"] = "C" THEN 10 * Unit
    ELSE 5 * Unit

\* delayed_results of delayed_screen, for current_results and a trust erosion
\* of 3 (random.random() > 0.7) or 0
delayed_results(current_results, erosion) ==
    [current_results EXCEPT
        !.security = Min(100 * Unit, current_results.security + delayed_bonus),
        !.resilience = Min(100 * Unit, current_results.resilience + delayed_bonus),
        !.public_trust = Clamp(current_results.public_trust - erosion)]

\* the values random.random() > 0.7 selects between
Erosions == {0, 3 * Unit}

-----------------------------------------------------------------------------
(* Inputs of the player and of the random source *)

\* the scope radio, as decision_screen translates it
PlayedScopes == {"targeted", "general"}
\* the duration radio, as decision_screen translates it (the two extremes)
PlayedDurations == {"short", "long"}
\* the safeguard checkboxes that are ticked
PlayedSafeguards == {{}, {"transparency"}, {"transparency", "appeal", "sunset"}}
\* random.uniform(*RANDOM_FACTOR_RANGE): the two ends of the range
RandomFactors == {RANDOM_FACTOR_RANGE[1], RANDOM_FACTOR_RANGE[2]}

\* a draw that may repeat a key
ShufflesWithRepeats(keys) == [1..Cardinality(keys) -> keys]
\* the orders random.shuffle can leave the keys in
Shuffles(keys) ==
    {p \in [1..Cardinality(keys) -> keys] :
        \A i, j \in 1..Cardinality(keys) : i # j => p[i] # p[j]}

\* a write that replaces the newest snapshot
snapshot_overwritten(history, snapshot) ==
    IF history = <<>> THEN <<snapshot>>
    ELSE [history EXCEPT ![Len(history)] = snapshot]
\* crisis_history.append(metrics.copy())
snapshot_appended(history, snapshot) == Append(history, snapshot)

\* d[k] = v on a dict
DictSet(d, k, v) == [x \in DOMAIN d \cup {k} |-> IF x = k THEN v ELSE d[x]]

-----------------------------------------------------------------------------
(* Screens *)

\* the scenario the screens look up: get_scenarios()[selected_scenario_id]
scenario == get_scenarios[selected_scenario_id]

\* a gate that looks at the human resources only
is_affordable_hr_only(card) == human_resources >= card.hr_cost
\* budget >= card.cost and human_resources >= card.hr_cost
is_affordable(card) == budget >= card.cost /\ human_resources >= card.hr_cost

affordable_actions == SelectSeq(scenario.action_cards, is_affordable)

\* start_game_screen, "start" clicked.  With no scenario loaded
\* crisis_sequence[0] raises IndexError after the three writes before it.
StartGame ==
    /\ drawn_factor' = 0
    /\ UNCHANGED <<outcomes, editor_vars>>
    /\ last_click' = "start"
    /\ screen = "start_game"
    /\ Len(crisis_history) < MaxFailedStarts
    /\ \E crisis_keys \in Shuffles(DOMAIN get_scenarios) :
          LET chosen == SubSeq(crisis_keys, 1, Min(max_crises, Len(crisis_keys)))
          IN  /\ crisis_sequence' = chosen
              /\ current_crisis_index' = 0
              /\ crisis_history' = snapshot_appended(crisis_history, metrics)
              /\ IF Len(chosen) > 0
                 THEN /\ selected_scenario_id' = chosen[1]
                      /\ screen' = "story"
                 ELSE UNCHANGED <<selected_scenario_id, screen>>
    /\ UNCHANGED <<scenarios_data, config, game_initialized, metrics, budget,
                   human_resources, max_crises, news_ticker, decision, results,
                   immediate_results>>

\* story_screen, "listen to the advisors" clicked
StoryNext ==
    /\ drawn_factor' = 0
    /\ UNCHANGED <<outcomes, editor_vars>>
    /\ last_click' = "listen_to_advisors"
    /\ screen = "story"
    /\ screen' = "advisors"
    /\ UNCHANGED <<scenarios_data, config, game_initialized, metrics, budget,
                   human_resources, max_crises, crisis_history, news_ticker,
                   current_crisis_index, crisis_sequence, selected_scenario_id,
                   decision, results, immediate_results>>

\* st.columns(len(scenario.advisors)) returns: it raises for zero columns,
\* and the script run ends before the button below it is rendered
advisor_columns_laid_out == Len(scenario.advisors) > 0

\* advisors_screen, "go to the decision" clicked
AdvisorsNext ==
    /\ drawn_factor' = 0
    /\ UNCHANGED <<outcomes, editor_vars>>
    /\ last_click' = "go_to_decision"
    /\ screen = "advisors"
    /\ advisor_columns_laid_out
    /\ screen' = "decision"
    /\ UNCHANGED <<scenarios_data, config, game_initialized, metrics, budget,
                   human_resources, max_crises, crisis_history, news_ticker,
                   current_crisis_index, crisis_sequence, selected_scenario_id,
                   decision, results, immediate_results>>

\* decision_screen, "skip the turn" clicked (shown when nothing is affordable)
SkipTurn ==
    /\ drawn_factor' = 0
    /\ outcomes' = Append(outcomes,
                          [action |-> "SKIP", cost |-> 0, hr_cost |-> 0])
    /\ UNCHANGED editor_vars
    /\ last_click' = "skip_turn"
    /\ screen = "decision"
    /\ affordable_actions = <<>>
    /\ news_ticker' = add_news(news_ticker, [kind |-> "shortfall", name |-> ""])
    /\ results' = calculate_skip_turn_effects
    /\ immediate_results' = results'
    /\ decision' = [action |-> "SKIP", skipped |-> TRUE]
    /\ screen' = "immediate"
    /\ UNCHANGED <<scenarios_data, config, game_initialized, metrics, budget,
                   human_resources, max_crises, crisis_history,
                   current_crisis_index, crisis_sequence, selected_scenario_id>>

\* a button that is never disabled
select_never_disabled(card) == TRUE
\* whether the "choose this" button of the card is enabled
select_enabled(card) == is_affordable(card)

\* decision_screen, "choose this" clicked on the i-th card
SelectAction ==
    /\ drawn_factor' = 0
    /\ UNCHANGED <<outcomes, editor_vars>>
    /\ last_click' = "choose_card"
    /\ screen = "decision"
    /\ affordable_actions # <<>>
    /\ \E i \in 1..Len(scenario.action_cards) :
          /\ select_enabled(scenario.action_cards[i])
          /\ decision' = DictSet(decision, "action", scenario.action_cards[i].id)
    /\ UNCHANGED <<scenarios_data, config, game_initialized, screen, metrics,
                   budget, human_resources, max_crises, crisis_history,
                   news_ticker, current_crisis_index, crisis_sequence,
                   selected_scenario_id, results, immediate_results>>

\* next(card for card in scenario.action_cards if card.id == selected_action_id)
selected_card ==
    LET cards == scenario.action_cards
        first == CHOOSE i \in 1..Len(cards) :
                    /\ cards[i].id = decision["action"]
                    /\ \A j \in 1..(i - 1) : cards[j].id # decision["action"]
    IN  cards[first]

\* decision_screen, "apply" clicked (shown once a card is chosen), for the
\* widget values and the random draw taken from the given sets
Apply(scopes, durations, safeguard_sets, random_factors) ==
    /\ last_click' = "apply"
    /\ UNCHANGED editor_vars
    /\ screen = "decision"
    /\ affordable_actions # <<>>
    /\ "action" \in DOMAIN decision
    /\ \E i \in 1..Len(scenario.action_cards) :
          scenario.action_cards[i].id = decision["action"]
    /\ \E scope \in scopes, duration \in durations,
          safeguards \in safeguard_sets, random_factor \in random_factors :
          LET action == selected_card
              new == calculate_effects(action, scope, duration, safeguards,
                                       random_factor)
          IN  /\ decision' = [action |-> decision["action"], scope |-> scope,
                              duration |-> duration, safeguards |-> safeguards,
                              skipped |-> FALSE]
              /\ news_ticker' = effects_news(news_ticker, action, scope, duration,
                                             safeguards, random_factor)
              /\ drawn_factor' = random_factor
              /\ outcomes' = Append(outcomes, [action |-> action.id,
                                                cost |-> action.cost,
                                                hr_cost |-> action.hr_cost])
              /\ results' = new
              /\ immediate_results' = new
              /\ budget' = new.budget
              /\ human_resources' = new.human_resources
    /\ screen' = "immediate"
    /\ UNCHANGED <<scenarios_data, config, game_initialized, metrics, max_crises,
                   crisis_history, current_crisis_index, crisis_sequence,
                   selected_scenario_id>>

\* "apply" in the game
ConfirmDecision ==
    Apply(PlayedScopes, PlayedDurations, PlayedSafeguards, RandomFactors)

\* immediate_screen, "some time later" clicked; the rerun renders
\* delayed_screen, which rewrites results
ImmediateNext ==
    /\ drawn_factor' = 0
    /\ UNCHANGED <<outcomes, editor_vars>>
    /\ last_click' = "some_time_later"
    /\ screen = "immediate"
    /\ screen' = "delayed"
    /\ \E erosion \in Erosions : results' = delayed_results(results, erosion)
    /\ UNCHANGED <<scenarios_data, config, game_initialized, metrics, budget,
                   human_resources, max_crises, crisis_history, news_ticker,
                   current_crisis_index, crisis_sequence, selected_scenario_id,
                   decision, immediate_results>>

\* what delayed_screen leaves in results in the script run of the click on
\* "see the report": it rewrites results before it reaches the button
results_at_report_click(erosion) == delayed_results(results, erosion)

\* delayed_screen, "see the report" clicked; the rerun renders
\* report_screen, which copies results into metrics
DelayedNext ==
    /\ drawn_factor' = 0
    /\ UNCHANGED <<outcomes, editor_vars>>
    /\ last_click' = "see_report"
    /\ screen = "delayed"
    /\ \E erosion \in Erosions :
          /\ results' = results_at_report_click(erosion)
          /\ metrics' = results'
    /\ screen' = "report"
    /\ UNCHANGED <<scenarios_data, config, game_initialized, budget,
                   human_resources, max_crises, crisis_history, news_ticker,
                   current_crisis_index, crisis_sequence, selected_scenario_id,
                   decision, immediate_results>>

\* a test that stops one crisis early
has_next_crisis_one_short(index) == index + 1 < Len(crisis_sequence)
\* current_crisis_index < len(crisis_sequence), after the increment
has_next_crisis(index) == index < Len(crisis_sequence)

\* the first scenario of the sequence, whatever the index
scenario_id_at_start(index) == crisis_sequence[1]
\* crisis_sequence[current_crisis_index], for the 0-based index
scenario_id_at(index) == crisis_sequence[index + 1]

\* report_screen, "next crisis" clicked
ReportNext ==
    /\ drawn_factor' = 0
    /\ UNCHANGED <<outcomes, editor_vars>>
    /\ last_click' = "next_crisis"
    /\ screen = "report"
    /\ metrics' = results
    /\ current_crisis_index' = current_crisis_index + 1
    /\ crisis_history' = snapshot_appended(crisis_history, metrics')
    /\ IF has_next_crisis(current_crisis_index')
       THEN /\ selected_scenario_id' = scenario_id_at(current_crisis_index')
            /\ decision' = EmptyDict
            /\ screen' = "story"
       ELSE /\ screen' = "game_end"
            /\ UNCHANGED <<selected_scenario_id, decision>>
    /\ UNCHANGED <<scenarios_data, config, game_initialized, budget,
                   human_resources, max_crises, news_ticker, crisis_sequence,
                   results, immediate_results>>

\* 'game_initialized' not in st.session_state, for the value the key holds
not_in_session(flag) == flag = "absent"

\* a sidebar that shows the button on every screen
end_game_always_offered == TRUE
\* a sidebar that hides the button on the end screen only
end_game_offered_before_start == screen # "game_end"
\* the screens whose sidebar shows "end the game"
end_game_offered == screen \notin {"start_game", "game_end"}

\* display_metrics_sidebar, "end the game" clicked: the sidebar runs before
\* the screen function, so the screen is not rendered in this script run.
\* The sidebar is reached only when initialize_game_state() has returned.
EndGame ==
    /\ drawn_factor' = 0
    /\ UNCHANGED <<outcomes, editor_vars>>
    /\ last_click' = "end_game"
    /\ ~not_in_session(game_initialized)
    /\ end_game_offered
    /\ results' = IF results = NoneDict THEN metrics ELSE results
    /\ screen' = "game_end"
    /\ UNCHANGED <<scenarios_data, config, game_initialized, metrics, budget,
                   human_resources, max_crises, crisis_history, news_ticker,
                   current_crisis_index, crisis_sequence, selected_scenario_id,
                   decision, immediate_results>>

\* game_end_screen, "new game" clicked: reset_game() stores False under the
\* key and calls initialize_game_state(), which initializes only when the
\* key is missing
ResetGame ==
    /\ drawn_factor' = 0
    /\ last_click' = "new_game"
    /\ UNCHANGED editor_vars
    /\ screen = "game_end"
    /\ IF not_in_session("False")
       THEN /\ game_initialized' = "True"
            /\ screen' = "start_game"
            /\ metrics' = config.initial_settings.metrics
            /\ budget' = config.initial_settings.budget
            /\ human_resources' = config.initial_settings.hr
            /\ max_crises' = config.initial_settings.max_crises
            /\ crisis_history' = <<>>
            /\ news_ticker' = <<[kind |-> "start", name |-> ""]>>
            /\ current_crisis_index' = 0
            /\ crisis_sequence' = <<>>
            /\ selected_scenario_id' = NoScenario
            /\ decision' = EmptyDict
            /\ results' = NoneDict
            /\ outcomes' = <<>>
            /\ UNCHANGED <<scenarios_data, config, immediate_results>>
       ELSE /\ game_initialized' = "False"
            /\ UNCHANGED <<scenarios_data, config, screen, metrics, budget,
                           human_resources, max_crises, crisis_history,
                           news_ticker, current_crisis_index, crisis_sequence,
                           selected_scenario_id, decision, results,
                           immediate_results, outcomes>>

Next ==
    \/ StartGame
    \/ StoryNext
    \/ AdvisorsNext
    \/ SkipTurn
    \/ SelectAction
    \/ ConfirmDecision
    \/ ImmediateNext
    \/ DelayedNext
    \/ ReportNext
    \/ EndGame
    \/ ResetGame

Spec == Init /\ [][Next]_vars

-----------------------------------------------------------------------------
(* Game end screen: what game_end_screen computes while rendering *)

\* the snapshot taken when the game started
final_metrics_at_start == crisis_history[1]
\* final_metrics = st.session_state.results
final_metrics == results

\* (security + freedom + public_trust) / 3, kept exact: the integer v stands
\* for v / (3 * Unit)
leadership_score(final) == final.security + final.freedom + final.public_trust

\* tiers that include their lower threshold
score_text_from_threshold(final) ==
    IF leadership_score(final) >= 75 * 3 * Unit THEN "excellent"
    ELSE IF leadership_score(final) >= 55 * 3 * Unit THEN "good"
    ELSE "poor"
\* the score_text chosen ('Mukemmel! ...', 'Iyi is, ...', 'Zorlu bir yolculuktu. ...')
score_text(final) ==
    IF leadership_score(final) > 75 * 3 * Unit THEN "excellent"
    ELSE IF leadership_score(final) > 55 * 3 * Unit THEN "good"
    ELSE "poor"

\* the community builder rule tried before the other two
leadership_style_builder_first(final) ==
    IF final.public_trust > 70 * Unit /\ final.resilience > 60 * Unit
    THEN "Toplum Insaatcisi"
    ELSE IF final.security > 75 * Unit /\ final.freedom < 50 * Unit
    THEN "Otoriter Taktisyen"
    ELSE IF final.freedom > 75 * Unit /\ final.security < 50 * Unit
    THEN "Ozgurluk Sampiyonu"
    ELSE "Dengeli Stratejist"
\* the leadership_style chosen by the if / elif chain over its default
leadership_style(final) ==
    IF final.security > 75 * Unit /\ final.freedom < 50 * Unit
    THEN "Otoriter Taktisyen"
    ELSE IF final.freedom > 75 * Unit /\ final.security < 50 * Unit
    THEN "Ozgurluk Sampiyonu"
    ELSE IF final.public_trust > 70 * Unit /\ final.resilience > 60 * Unit
    THEN "Toplum Insaatcisi"
    ELSE "Dengeli Stratejist"

-----------------------------------------------------------------------------
(* Properties *)

InitialTicker == <<[kind |-> "start", name |-> ""]>>

\* the five gauges of a dict are in [0, 100]
InRange(m) == \A g \in Gauges : 0 <= m[g] /\ m[g] <= 100 * Unit

\* the five gauges of two dicts agree
SameGauges(m, n) == \A g \in Gauges : m[g] = n[g]

\* C1: a click on "new game" leaves the session in start_game with metrics,
\* budget and human_resources at their initial_settings values, no history,
\* crisis index 0, no pending decision, no results, and the ticker holding
\* the initial headline alone.
C1_ResetRestoresInitialState ==
    [][last_click' = "new_game" =>
          /\ screen' = "start_game"
          /\ metrics' = config.initial_settings.metrics
          /\ budget' = config.initial_settings.budget
          /\ human_resources' = config.initial_settings.hr
          /\ crisis_history' = <<>>
          /\ current_crisis_index' = 0
          /\ decision' = EmptyDict
          /\ results' = NoneDict
          /\ news_ticker' = InitialTicker]_vars

\* C2: the results shown at report are the results decision_screen stored
\* with the delayed bonus added once to security and to resilience and with
\* public_trust lowered by at most 3; nothing else differs.
C2_DelayedPassAppliedOnce ==
    screen = "report" =>
        /\ results.security = Min(100 * Unit, immediate_results.security + delayed_bonus)
        /\ results.resilience = Min(100 * Unit, immediate_results.resilience + delayed_bonus)
        /\ results.public_trust <= immediate_results.public_trust
        /\ results.public_trust >= Max(0, immediate_results.public_trust - 3 * Unit)
        /\ results.freedom = immediate_results.freedom
        /\ results.fatigue = immediate_results.fatigue

\* the edges of the phase graph, each with the click that takes it
PhaseEdges ==
    {<<"start_game", "story", "start">>,
     <<"story", "advisors", "listen_to_advisors">>,
     <<"advisors", "decision", "go_to_decision">>,
     <<"decision", "immediate", "apply">>,
     <<"decision", "immediate", "skip_turn">>,
     <<"immediate", "delayed", "some_time_later">>,
     <<"delayed", "report", "see_report">>,
     <<"report", "story", "next_crisis">>,
     <<"report", "game_end", "next_crisis">>,
     <<"game_end", "start_game", "new_game">>}
    \cup {<<from, "game_end", "end_game">> :
            from \in {"story", "advisors", "decision", "immediate", "delayed",
                      "report"}}

\* C3: the phase is always one of the eight registered screens, and it
\* changes only along the edges of the phase graph, each change being the
\* effect of the one click that belongs to the edge.
C3_PhaseEdges ==
    /\ [](screen \in screen_functions)
    /\ [][screen' # screen => <<screen, screen', last_click'>> \in PhaseEdges]_vars

C3_Witness ==
    /\ screen = "game_end"
    /\ last_click = "end_game"
    /\ current_crisis_index = 1

\* C4: a click on "end the game" moves to game_end, and the metrics the score
\* is computed from (results) are the session metrics at the moment of the
\* click, whatever the phase.
C4_EndGameUsesCommittedMetrics ==
    [][last_click' = "end_game" =>
          /\ screen' = "game_end"
          /\ SameGauges(results', metrics)]_vars

\* C5: budget and human_resources are never negative, and a card that is
\* pending in the decision phase is affordable.
C5_ResourcesNeverNegative ==
    /\ budget >= 0
    /\ human_resources >= 0
    /\ (screen = "decision" /\ "action" \in DOMAIN decision)
          => is_affordable(selected_card)

C5_Witness ==
    /\ last_click = "apply"
    /\ budget = 0
    /\ human_resources = 0

\* C6: the five gauges lie in [0, 100] in the session metrics, in the
\* results and in every history snapshot.
C6_GaugesInRange ==
    /\ InRange(metrics)
    /\ results # NoneDict => InRange(results)
    /\ \A i \in 1..Len(crisis_history) : InRange(crisis_history[i])

C6_Witness ==
    /\ screen = "report"
    /\ results.freedom = 0
    /\ results.security = 100 * Unit
    /\ Len(crisis_history) = 2

\* C7: a click on "start" with fewer scenarios loaded than max_crises changes
\* neither the phase nor crisis_sequence, crisis_history, the selected
\* scenario or the crisis index; any other start leaves a crisis_sequence
\* of exactly max_crises entries.
C7_StartFailsWithoutEnoughScenarios ==
    [][last_click' = "start" =>
          IF Cardinality(DOMAIN get_scenarios) < max_crises
          THEN UNCHANGED <<screen, crisis_sequence, crisis_history,
                           selected_scenario_id, current_crisis_index>>
          ELSE /\ screen' = "story"
               /\ Len(crisis_sequence') = max_crises]_vars

\* C8: in a started game crisis_sequence has no duplicate ids, only ids of
\* loaded scenarios and at most as many entries as scenarios are loaded, and
\* throughout the first crisis crisis_history is the one seed snapshot, equal
\* to the initial metrics.
C8_StartedSequence ==
    screen # "start_game" =>
        /\ \A i, j \in 1..Len(crisis_sequence) :
              i # j => crisis_sequence[i] # crisis_sequence[j]
        /\ \A i \in 1..Len(crisis_sequence) :
              crisis_sequence[i] \in DOMAIN get_scenarios
        /\ Len(crisis_sequence) <= Cardinality(DOMAIN get_scenarios)
        /\ current_crisis_index = 0 =>
              crisis_history = <<config.initial_settings.metrics>>

C8_Witness ==
    /\ last_click = "start"
    /\ screen = "story"
    /\ Len(crisis_sequence) = 2

\* crisis_history' is crisis_history with one entry added at the end
GrowsByOne ==
    /\ Len(crisis_history') = Len(crisis_history) + 1
    /\ SubSeq(crisis_history', 1, Len(crisis_history)) = crisis_history

\* C9 as stated: history has current_crisis_index + 1 entries at every entry
\* into story, and in a running game it gains one entry whenever the report
\* phase is left and is unchanged by every other step.
C9_HistoryGrowsWheneverReportIsLeft ==
    [][/\ (screen # "story" /\ screen' = "story")
             => Len(crisis_history') = current_crisis_index' + 1
       /\ screen # "start_game" =>
             IF screen = "report" /\ screen' # "report"
             THEN GrowsByOne
             ELSE crisis_history' = crisis_history]_vars

\* C9 as amended: history has current_crisis_index + 1 entries at every
\* entry into story, and in a running game it gains one entry whenever the
\* player advances from report with "next crisis" and is unchanged by every
\* other step, the click on "end the game" in the report phase included.
C9_HistoryGrowsOnAdvance ==
    [][/\ (screen # "story" /\ screen' = "story")
             => Len(crisis_history') = current_crisis_index' + 1
       /\ screen # "start_game" =>
             IF screen = "report" /\ last_click' = "next_crisis"
             THEN GrowsByOne
             ELSE crisis_history' = crisis_history]_vars

C9_Witness ==
    /\ last_click = "next_crisis"
    /\ screen = "story"
    /\ Len(crisis_history) = 2
    /\ current_crisis_index = 1

\* C10: a click on "next crisis" raises the crisis index by one, leaves the
\* session metrics equal to the results, appends a snapshot with the gauges
\* of the results, and moves to game_end iff the new index is the length of
\* crisis_sequence; otherwise to story, with the scenario at the new index
\* selected and the pending decision empty.
C10_LeavingReport ==
    [][last_click' = "next_crisis" =>
          /\ screen = "report"
          /\ current_crisis_index' = current_crisis_index + 1
          /\ results' = results
          /\ metrics' = results
          /\ GrowsByOne
          /\ SameGauges(crisis_history'[Len(crisis_history')], results)
          /\ (screen' = "game_end")
                <=> (current_crisis_index' = Len(crisis_sequence'))
          /\ screen' # "game_end" =>
                /\ screen' = "story"
                /\ selected_scenario_id' = crisis_sequence'[current_crisis_index' + 1]
                /\ decision' = EmptyDict]_vars

C10_Witness ==
    /\ last_click = "next_crisis"
    /\ screen = "game_end"
    /\ current_crisis_index = 2
    /\ Len(crisis_sequence) = 2

-----------------------------------------------------------------------------
(* The resource gate of the decision screen *)

\* the card can be paid for from the session's budget and human resources
CanPay(card) == card.cost <= budget /\ card.hr_cost <= human_resources

\* no card of the active scenario can be paid for
Blocked ==
    \A i \in 1..Len(scenario.action_cards) : ~CanPay(scenario.action_cards[i])

\* C11: on the decision screen a card can be chosen exactly when its cost is
\* within the budget and its hr_cost within the human resources; skipping the
\* turn is offered exactly when no card of the active scenario can be chosen;
\* and when none can, no card can be chosen or applied and the only clicks
\* that leave the decision screen are "skip the turn" and "end the game".
C11_ResourceGate ==
    screen = "decision" =>
        /\ \A i \in 1..Len(scenario.action_cards) :
              (ENABLED (SelectAction
                        /\ decision'["action"] = scenario.action_cards[i].id))
                  <=> CanPay(scenario.action_cards[i])
        /\ (ENABLED SkipTurn) <=> Blocked
        /\ Blocked =>
              /\ ~ENABLED SelectAction
              /\ ~ENABLED ConfirmDecision
              /\ ~ENABLED (Next /\ screen' # "decision"
                                /\ last_click' \notin {"skip_turn", "end_game"})

\* the turn was skipped with a budget that pays for no card
C11_Witness ==
    /\ last_click = "skip_turn"
    /\ screen = "immediate"
    /\ budget = 0

-----------------------------------------------------------------------------
(* Skipping a turn *)

\* C12: the click on "skip the turn" stores results with security lowered by
\* 25, public trust by 20 and resilience by 10 (none below 0), fatigue raised
\* by 15 (not above 100), freedom as it was, and budget and human resources
\* as they were, in the results and in the session; it puts exactly one
\* resource-shortfall headline in front of the ticker, marks the decision as
\* skipped and shows the immediate screen.
C12_SkipTurn ==
    [][last_click' = "skip_turn" =>
          /\ results'.security = Max(0, metrics.security - 25 * Unit)
          /\ results'.public_trust = Max(0, metrics.public_trust - 20 * Unit)
          /\ results'.resilience = Max(0, metrics.resilience - 10 * Unit)
          /\ results'.fatigue = Min(100 * Unit, metrics.fatigue + 15 * Unit)
          /\ results'.freedom = metrics.freedom
          /\ results'.budget = budget
          /\ results'.human_resources = human_resources
          /\ budget' = budget
          /\ human_resources' = human_resources
          /\ news_ticker'[1].kind = "shortfall"
          /\ Len(news_ticker') = Min(5, Len(news_ticker) + 1)
          /\ \A i \in 2..Len(news_ticker') : news_ticker'[i] = news_ticker[i - 1]
          /\ decision'["skipped"] = TRUE
          /\ screen = "decision"
          /\ screen' = "immediate"]_vars

\* a turn was skipped: the penalties are in the results, the session's
\* gauges are still the ones before the skip
C12_Witness ==
    /\ last_click = "skip_turn"
    /\ screen = "immediate"
    /\ decision["skipped"] = TRUE
    /\ news_ticker[1].kind = "shortfall"
    /\ results.security = metrics.security - 25 * Unit
    /\ results.fatigue = metrics.fatigue + 15 * Unit

-----------------------------------------------------------------------------
(* Unaffordable and unknown actions *)

\* the id names a card of the active scenario that can be paid for
NamesAffordableCard(id) ==
    \E i \in 1..Len(scenario.action_cards) :
        /\ scenario.action_cards[i].id = id
        /\ CanPay(scenario.action_cards[i])

\* C13: on the decision screen no click chooses or applies an action that
\* cannot be paid for or that is not a card of the active scenario: such an
\* attempt is no step at all, so the screen, budget, human resources,
\* metrics, results, history, ticker and pending decision stay as they are.
\* Hence a pending action id on the decision screen always names an
\* affordable card of the active scenario.
C13_NoUnaffordableOrUnknownAction ==
    /\ [](screen = "decision" /\ "action" \in DOMAIN decision
              => NamesAffordableCard(decision["action"]))
    /\ [][screen = "decision" /\ last_click' \in {"choose_card", "apply"}
              => NamesAffordableCard(decision'["action"])]_vars

\* a card is pending on the decision screen while the other card's button
\* is disabled for lack of budget
C13_Witness ==
    /\ screen = "decision"
    /\ last_click = "choose_card"
    /\ decision["action"] = "C"
    /\ budget = 40
    /\ \E i \in 1..Len(scenario.action_cards) : ~CanPay(scenario.action_cards[i])

-----------------------------------------------------------------------------
(* Applying a decision *)

\* C14: the click on "apply" with action a pending computes the effects once
\* from the session's metrics and stores them as the results, lowers the
\* budget by a.cost and the human resources by a.hr_cost, and leaves the
\* session's metrics, crisis_history, crisis index and crisis_sequence as
\* they were.
C14_ApplyFrame ==
    [][last_click' = "apply" =>
          LET a == selected_card
              scope == decision'["scope"]
              duration == decision'["duration"]
              safeguards == decision'["safeguards"]
          IN  /\ screen = "decision"
              /\ screen' = "immediate"
              /\ decision'["action"] = a.id
              /\ results'.security
                     = Clamp(metrics.security + security_change(a, drawn_factor'))
              /\ results'.freedom
                     = Clamp(metrics.freedom
                               - freedom_cost(a, scope, duration, safeguards))
              /\ results'.public_trust
                     = Clamp(metrics.public_trust
                               + public_trust_change(a, scope, duration, safeguards))
              /\ results'.resilience
                     = Clamp(metrics.resilience + resilience_change(a, safeguards))
              /\ results'.fatigue
                     = Clamp(metrics.fatigue + fatigue_change(scope, duration))
              /\ results'.budget = budget - a.cost
              /\ results'.human_resources = human_resources - a.hr_cost
              /\ budget' = budget - a.cost
              /\ human_resources' = human_resources - a.hr_cost
              /\ metrics' = metrics
              /\ crisis_history' = crisis_history
              /\ current_crisis_index' = current_crisis_index
              /\ crisis_sequence' = crisis_sequence]_vars

\* card A (cost 60, hr_cost 20) was applied in the first crisis of a game
\* that started with 100 and 50: the results differ from the session's
\* metrics, which are still the initial ones
C14_Witness ==
    /\ last_click = "apply"
    /\ screen = "immediate"
    /\ decision["action"] = "A"
    /\ budget = 40
    /\ human_resources = 30
    /\ metrics = InitialMetrics
    /\ results.security # metrics.security
    /\ Len(crisis_history) = 1

-----------------------------------------------------------------------------
(* The news ticker, one add_news call at a time *)

\* the headlines the program passes to add_news: the three of
\* calculate_effects (the first one carries the card's name) and the one of
\* calculate_skip_turn_effects
Headlines ==
    {[kind |-> "security", name |-> CardA.name],
     [kind |-> "security", name |-> CardC.name],
     [kind |-> "freedom", name |-> ""],
     [kind |-> "transparency", name |-> ""],
     [kind |-> "shortfall", name |-> ""]}

\* one call add_news(headline) on the session's ticker
AddNews ==
    /\ \E headline \in Headlines : news_ticker' = add_news(news_ticker, headline)
    /\ UNCHANGED <<scenarios_data, config, game_initialized, screen, metrics,
                   budget, human_resources, max_crises, crisis_history,
                   current_crisis_index, crisis_sequence, selected_scenario_id,
                   decision, results, immediate_results, last_click,
                   drawn_factor, outcomes>>
    /\ UNCHANGED editor_vars

\* the ticker from its seed on, under any sequence of insertions
NewsSpec == Init /\ [][AddNews]_vars

\* C15: after any sequence of insertions the ticker has between 1 and 5
\* entries; an insertion puts the new headline at the front, keeps the others
\* in their order, and drops exactly the last entry when the length would
\* pass 5.
C15_TickerBounded ==
    /\ [](Len(news_ticker) >= 1 /\ Len(news_ticker) <= 5)
    /\ [][news_ticker' # news_ticker =>
             /\ news_ticker'[1] \in Headlines
             /\ Len(news_ticker') = Min(5, Len(news_ticker) + 1)
             /\ \A i \in 2..Len(news_ticker') : news_ticker'[i] = news_ticker[i - 1]
             /\ Len(news_ticker) = 5 =>
                   SubSeq(news_ticker', 2, 5) = SubSeq(news_ticker, 1, 4)]_vars

\* the ticker is full and the seed headline has been dropped from its end
C15_Witness ==
    /\ Len(news_ticker) = 5
    /\ \A i \in 1..5 : news_ticker[i].kind # "start"
    /\ news_ticker[1].kind = "shortfall"
    /\ news_ticker[5].kind = "transparency"

-----------------------------------------------------------------------------
(* The end of a game played to its last crisis *)

\* the last report was left with "next crisis": the index has reached the
\* length of the sequence
CompletedNaturally ==
    /\ screen = "game_end"
    /\ Len(crisis_sequence) > 0
    /\ current_crisis_index = Len(crisis_sequence)

\* C16: after a game played to its last crisis, the metrics the score is
\* computed from are the committed session metrics and the five gauges of
\* the last crisis_history entry, and the leadership score is the third of
\* security + freedom + public_trust of those values.
C16_ScoreFromCommittedMetrics ==
    CompletedNaturally =>
        LET last == crisis_history[Len(crisis_history)]
        IN  /\ SameGauges(final_metrics, metrics)
            /\ SameGauges(final_metrics, last)
            /\ leadership_score(final_metrics)
                   = metrics.security + metrics.freedom + metrics.public_trust
            /\ leadership_score(final_metrics)
                   = last.security + last.freedom + last.public_trust

\* a game of two crises was played to its end and its final gauges are not
\* the initial ones
C16_Witness ==
    /\ CompletedNaturally
    /\ last_click = "next_crisis"
    /\ current_crisis_index = 2
    /\ Len(crisis_history) = 3
    /\ ~SameGauges(final_metrics, crisis_history[1])

-----------------------------------------------------------------------------
(* The game end screen over final gauges of every kind: a game that is       *)
(* started and ended at once shows the score of the configured initial       *)
(* metrics *)

\* values around the thresholds of the style rules (50, 75) and the ends
SecurityFreedomSamples ==
    {0, 50 * Unit - 1, 50 * Unit, 75 * Unit, 75 * Unit + 1, 100 * Unit}
\* values around the threshold of the style rule (70), values that put the
\* sum of the three gauges around 165 and 225, and the ends
PublicTrustSamples ==
    {0, 15 * Unit, 15 * Unit + 1, 70 * Unit, 70 * Unit + 1, 75 * Unit,
     75 * Unit + 1, 100 * Unit}
\* values around the threshold of the style rule (60) and the ends
ResilienceSamples == {0, 60 * Unit, 60 * Unit + 1, 100 * Unit}

\* config.json files whose initial_settings.metrics run over the samples
ScoreConfigs ==
    { [initial_settings |->
          [metrics |-> [security |-> s, freedom |-> f, public_trust |-> p,
                        resilience |-> r, fatigue |-> 0],
           budget |-> 100, hr |-> InitialHr, max_crises |-> 1]] :
      s \in SecurityFreedomSamples, f \in SecurityFreedomSamples,
      p \in PublicTrustSamples, r \in ResilienceSamples }

\* start, end the game from the sidebar, look at the game end screen
ScoreNext ==
    \/ StartGame
    \/ EndGame
    \/ ResetGame

ScoreInit == InitWith(ScoreConfigs)

ScoreSpec == ScoreInit /\ [][ScoreNext]_vars


\* the three rules of the style, as conditions on the final gauges
AuthoritarianRule(final) ==
    final.security > 75 * Unit /\ final.freedom < 50 * Unit
FreedomChampionRule(final) ==
    final.freedom > 75 * Unit /\ final.security < 50 * Unit
CommunityBuilderRule(final) ==
    final.public_trust > 70 * Unit /\ final.resilience > 60 * Unit

\* C17: on the game end screen the leadership style is exactly one of the
\* four, by fixed precedence: authoritarian iff security > 75 and
\* freedom < 50; otherwise freedom champion iff freedom > 75 and
\* security < 50; otherwise community builder iff public_trust > 70 and
\* resilience > 60; otherwise balanced strategist.  Gauges that meet the
\* authoritarian and the community builder rule give authoritarian, and the
\* values 75, 50, 70 and 60 themselves meet no comparison.
C17_StyleByPrecedence ==
    screen = "game_end" =>
        LET final == final_metrics
            style == leadership_style(final)
        IN  /\ style \in {"Otoriter Taktisyen", "Ozgurluk Sampiyonu",
                          "Toplum Insaatcisi", "Dengeli Stratejist"}
            /\ style = "Otoriter Taktisyen" <=> AuthoritarianRule(final)
            /\ style = "Ozgurluk Sampiyonu" <=>
                  ~AuthoritarianRule(final) /\ FreedomChampionRule(final)
            /\ style = "Toplum Insaatcisi" <=>
                  /\ ~AuthoritarianRule(final)
                  /\ ~FreedomChampionRule(final)
                  /\ CommunityBuilderRule(final)
            /\ style = "Dengeli Stratejist" <=>
                  /\ ~AuthoritarianRule(final)
                  /\ ~FreedomChampionRule(final)
                  /\ ~CommunityBuilderRule(final)
            /\ AuthoritarianRule(final) /\ CommunityBuilderRule(final)
                  => style = "Otoriter Taktisyen"
            /\ final.security = 75 * Unit \/ final.freedom = 50 * Unit
                  => style # "Otoriter Taktisyen"
            /\ final.freedom = 75 * Unit \/ final.security = 50 * Unit
                  => style # "Ozgurluk Sampiyonu"
            /\ final.public_trust = 70 * Unit \/ final.resilience = 60 * Unit
                  => style # "Toplum Insaatcisi"

\* final gauges that meet the authoritarian and the community builder rule,
\* each by the smallest margin
C17_Witness ==
    /\ screen = "game_end"
    /\ final_metrics.security = 75 * Unit + 1
    /\ final_metrics.freedom = 50 * Unit - 1
    /\ final_metrics.public_trust = 70 * Unit + 1
    /\ final_metrics.resilience = 60 * Unit + 1
    /\ leadership_style(final_metrics) = "Otoriter Taktisyen"

\* C18: on the game end screen the tier of the score is excellent iff the
\* score is above 75, good iff it is above 55 and at most 75, poor iff it is
\* at most 55; that is, iff the sum of security, freedom and public_trust is
\* above 225, in (165, 225], at most 165.
C18_ScoreTier ==
    screen = "game_end" =>
        LET final == final_metrics
            sum == final.security + final.freedom + final.public_trust
            tier == score_text(final)
        IN  /\ tier = "excellent" <=> sum > 225 * Unit
            /\ tier = "good" <=> sum > 165 * Unit /\ sum <= 225 * Unit
            /\ tier = "poor" <=> sum <= 165 * Unit
            /\ leadership_score(final) = sum
            /\ tier = "excellent" <=> leadership_score(final) > 3 * 75 * Unit
            /\ tier = "poor" <=> leadership_score(final) <= 3 * 55 * Unit

\* final gauges whose score is exactly 75: the tier is good
C18_Witness ==
    /\ screen = "game_end"
    /\ final_metrics.security = 75 * Unit
    /\ final_metrics.freedom = 75 * Unit
    /\ final_metrics.public_trust = 75 * Unit
    /\ score_text(final_metrics) = "good"

-----------------------------------------------------------------------------
(* calculate_effects over every widget value: one crisis, played from        *)
(* initial metrics at the middle and at both ends of the scale               *)

\* initial_settings.metrics at the floor, at the shipped values, at the ceiling
CalcMetrics ==
    {[security |-> 0, freedom |-> 0, public_trust |-> 0, resilience |-> 0,
      fatigue |-> 0],
     InitialMetrics,
     [security |-> 100 * Unit, freedom |-> 100 * Unit,
      public_trust |-> 100 * Unit, resilience |-> 100 * Unit,
      fatigue |-> 100 * Unit]}

CalcConfigs ==
    { [initial_settings |->
          [metrics |-> m, budget |-> 100, hr |-> InitialHr, max_crises |-> 1]] :
      m \in CalcMetrics }

\* the values of the scope radio
Scopes == {"targeted", "general"}
\* the values of the duration radio
Durations == {"short", "medium", "long"}
\* the lists the three checkboxes can build
SafeguardSets == SUBSET {"transparency", "appeal", "sunset"}
\* random.uniform(*RANDOM_FACTOR_RANGE): both ends and the middle
SampledFactors ==
    {RANDOM_FACTOR_RANGE[1], (RANDOM_FACTOR_RANGE[1] + RANDOM_FACTOR_RANGE[2]) \div 2,
     RANDOM_FACTOR_RANGE[2]}

\* "apply" with any widget values
ApplyAny == Apply(Scopes, Durations, SafeguardSets, SampledFactors)

CalcNext ==
    \/ StartGame
    \/ StoryNext
    \/ AdvisorsNext
    \/ SelectAction
    \/ ApplyAny
    \/ ImmediateNext
    \/ DelayedNext
    \/ ReportNext

CalcInit == InitWith(CalcConfigs)

CalcSpec == CalcInit /\ [][CalcNext]_vars

\* C19: the security an applied decision results in is the session's
\* security plus THREAT_SEVERITY * security_effect / 100 minus
\* side_effect_risk * random_factor * 20, kept within 0 and 100, whatever
\* the scope, the duration and the safeguards; with security 50,
\* THREAT_SEVERITY 80, security_effect 40, side_effect_risk 0.4 and random
\* factor 0.5 the change is 28 and the result 78.
C19_SecurityEffect ==
    [][last_click' = "apply" =>
          LET a == selected_card
              gain == (THREAT_SEVERITY * a.security_effect * Unit) \div 100
              loss == (a.side_effect_risk * drawn_factor' * 20 * Unit) \div 100
          IN  /\ results'.security
                     = Min(100 * Unit, Max(0, metrics.security + gain - loss))
              /\ (/\ metrics.security = 50 * Unit
                  /\ THREAT_SEVERITY = 80
                  /\ a.security_effect = 40
                  /\ a.side_effect_risk = 4
                  /\ drawn_factor' = 5)
                 => /\ gain - loss = 28 * Unit
                    /\ results'.security = 78 * Unit]_vars

\* security 50 with card A and random factor 0.5, applied with the widest
\* scope and duration and all safeguards
C19_Witness ==
    /\ last_click = "apply"
    /\ decision["action"] = "A"
    /\ decision["scope"] = "general"
    /\ decision["duration"] = "long"
    /\ Cardinality(decision["safeguards"]) = 3
    /\ drawn_factor = 5
    /\ metrics.security = 50 * Unit
    /\ results.security = 78 * Unit


\* C20: an applied decision costs freedom_cost = action.freedom_cost
\* * SCOPE_MULTIPLIERS[scope] * DURATION_MULTIPLIERS[duration]
\* * (1 - |safeguards| * SAFEGUARD_QUALITY_PER_ITEM * safeguard_reduction);
\* the resulting freedom is the freedom less that cost, the resulting public
\* trust is the trust plus TRUST_BOOST_FOR_TRANSPARENCY (when transparency is
\* among the safeguards) less half the cost, the resulting fatigue is the
\* fatigue plus the duration multiplier times FATIGUE_PER_DURATION[scope],
\* and the resulting resilience is the resilience plus security_effect
\* * safeguard quality / 2 for a slow action and plus 5 for any other; each
\* result is kept within 0 and 100.
C20_FreedomTrustFatigueResilience ==
    [][last_click' = "apply" =>
          LET a == selected_card
              scope == decision'["scope"]
              duration == decision'["duration"]
              safeguards == decision'["safeguards"]
              \* |safeguards| * SAFEGUARD_QUALITY_PER_ITEM, in hundredths
              quality == Cardinality(safeguards) * SAFEGUARD_QUALITY_PER_ITEM
              \* 1 - quality * safeguard_reduction, in thousandths
              kept == 1000 - quality * a.safeguard_reduction
              \* the cost before the safeguards, in hundredths
              full == a.freedom_cost * SCOPE_MULTIPLIERS[scope]
                          * DURATION_MULTIPLIERS[duration]
              \* the cost in units of 1 / Unit: full * kept is in units of
              \* 1 / 100000
              cost == full * kept * (Unit \div 100000)
              boost == IF "transparency" \in safeguards
                       THEN TRUST_BOOST_FOR_TRANSPARENCY * Unit ELSE 0
              tired == (DURATION_MULTIPLIERS[duration] * FATIGUE_PER_DURATION[scope]
                            * Unit) \div 10
              hardened == IF a.speed = "slow"
                          THEN (a.security_effect * quality * Unit) \div 200
                          ELSE 5 * Unit
              Within(v) == Min(100 * Unit, Max(0, v))
          IN  /\ 2 * (cost \div 2) = cost
              /\ results'.freedom = Within(metrics.freedom - cost)
              /\ results'.public_trust
                     = Within(metrics.public_trust + boost - cost \div 2)
              /\ results'.fatigue = Within(metrics.fatigue + tired)
              /\ results'.resilience = Within(metrics.resilience + hardened)]_vars

\* the slow card applied for a medium duration with all three safeguards to
\* the shipped initial metrics: freedom 50 - 5 * 0.7 * 1.0 * 0.64 = 47.76,
\* public trust 50 + 10 - 1.12 = 58.88, fatigue 5, resilience 50 + 4.5
C20_Witness ==
    /\ last_click = "apply"
    /\ metrics = InitialMetrics
    /\ decision["action"] = "C"
    /\ decision["scope"] = "targeted"
    /\ decision["duration"] = "medium"
    /\ Cardinality(decision["safeguards"]) = 3
    /\ 100 * results.freedom = 4776 * Unit
    /\ 100 * results.public_trust = 5888 * Unit
    /\ results.fatigue = 5 * Unit
    /\ 10 * results.resilience = 545 * Unit

-----------------------------------------------------------------------------
(* Safeguards and headlines of an applied decision *)

\* C21: for the action, scope, duration, starting metrics and random draw of
\* an applied decision, the resulting freedom and public trust are at least
\* those the same decision gives with any smaller list of safeguards.
C21_SafeguardsNeverHurt ==
    last_click = "apply" =>
        LET a == selected_card
            scope == decision["scope"]
            duration == decision["duration"]
            chosen == decision["safeguards"]
        IN  /\ results.freedom
                   = Clamp(metrics.freedom - freedom_cost(a, scope, duration, chosen))
            /\ results.public_trust
                   = Clamp(metrics.public_trust
                             + public_trust_change(a, scope, duration, chosen))
            /\ \A fewer \in SUBSET chosen :
                  /\ results.freedom
                         >= Clamp(metrics.freedom
                                    - freedom_cost(a, scope, duration, fewer))
                  /\ results.public_trust
                         >= Clamp(metrics.public_trust
                                    + public_trust_change(a, scope, duration, fewer))

\* all three safeguards applied to the shipped initial metrics: freedom and
\* public trust end strictly above what the decision gives without any
C21_Witness ==
    /\ last_click = "apply"
    /\ metrics = InitialMetrics
    /\ Cardinality(decision["safeguards"]) = 3
    /\ results.freedom
           > Clamp(metrics.freedom
                     - freedom_cost(selected_card, decision["scope"],
                                    decision["duration"], {}))
    /\ results.public_trust
           > Clamp(metrics.public_trust
                     + public_trust_change(selected_card, decision["scope"],
                                           decision["duration"], {}))


\* the clicks that choose a card, advance a screen or run the delayed pass
QuietClicks ==
    {"listen_to_advisors", "go_to_decision", "choose_card", "some_time_later",
     "see_report", "next_crisis"}

\* C22: an applied decision pushes a security headline iff the security
\* change, before clamping, is above 15, then a freedom headline iff the
\* freedom cost is above 15, then a transparency headline iff transparency
\* is among the safeguards, and nothing else, so that the transparency
\* headline ends at the front; choosing a card, advancing a screen and the
\* delayed pass push none.
C22_Headlines ==
    /\ [][last_click' = "apply" =>
             LET a == selected_card
                 safeguards == decision'["safeguards"]
                 delta == (THREAT_SEVERITY * a.security_effect * Unit) \div 100
                              - (a.side_effect_risk * drawn_factor' * 20 * Unit)
                                    \div 100
                 cost == a.freedom_cost * SCOPE_MULTIPLIERS[decision'["scope"]]
                             * DURATION_MULTIPLIERS[decision'["duration"]]
                             * (1000 - Cardinality(safeguards)
                                           * SAFEGUARD_QUALITY_PER_ITEM
                                           * a.safeguard_reduction)
                             * (Unit \div 100000)
                 pushed ==
                     (IF "transparency" \in safeguards
                      THEN <<[kind |-> "transparency", name |-> ""]>> ELSE <<>>)
                     \o (IF cost > 15 * Unit
                         THEN <<[kind |-> "freedom", name |-> ""]>> ELSE <<>>)
                     \o (IF delta > 15 * Unit
                         THEN <<[kind |-> "security", name |-> a.name]>>
                         ELSE <<>>)
                 all == pushed \o news_ticker
             IN  news_ticker' = SubSeq(all, 1, Min(5, Len(all)))]_vars
    /\ [][last_click' \in QuietClicks => news_ticker' = news_ticker]_vars

\* the slow card applied with transparency alone and the random factor 0.5:
\* its security change is exactly 15 and its freedom cost below 15, so the
\* transparency headline is the only one pushed
C22_Witness ==
    /\ last_click = "apply"
    /\ decision["action"] = "C"
    /\ decision["safeguards"] = {"transparency"}
    /\ drawn_factor = 5
    /\ news_ticker = <<[kind |-> "transparency", name |-> ""],
                       [kind |-> "start", name |-> ""]>>

-----------------------------------------------------------------------------
(* The end of the game *)

\* what a click may not touch once the game has ended
EndState ==
    <<screen, metrics, budget, human_resources, crisis_history, news_ticker,
      results>>

\* C23: on the game end screen no click other than "new game" changes the
\* screen, the metrics, the budget, the human resources, the history, the
\* ticker or the results, and "end the game" is offered neither on the start
\* screen nor on the game end screen.
C23_GameEndIsTerminal ==
    /\ screen = "game_end" =>
          ~ENABLED (Next /\ last_click' # "new_game" /\ EndState' # EndState)
    /\ screen \in {"start_game", "game_end"} => ~ENABLED EndGame

\* a game that was ended from the sidebar in the middle of a crisis
C23_Witness ==
    /\ screen = "game_end"
    /\ last_click = "end_game"
    /\ current_crisis_index < Len(crisis_sequence)
    /\ results # NoneDict

-----------------------------------------------------------------------------
(* Content files of every kind: scenarios.json with entries that lack a key *)
(* or hold an empty list, config.json present or missing                    *)

\* the entries a scenarios.json may hold: a complete one, one without
\* 'advisors', one without 'action_cards', one with no advisor, one with no
\* action card
EntryKinds ==
    {ScenarioEntry,
     [action_cards |-> <<CardA, CardC>>],
     [advisors |-> <<"Danisman 1", "Danisman 2">>],
     [advisors |-> <<>>, action_cards |-> <<CardA, CardC>>],
     [advisors |-> <<"Danisman 1", "Danisman 2">>, action_cards |-> <<>>]}

\* scenarios.json with n entries of any kind under the keys 1..n; n = 0 is
\* the empty file and the missing one (load_json_data returns None, and
\* get_scenarios returns {} for either)
ContentScenarioFiles ==
    UNION { [1..n -> EntryKinds] : n \in 0..NumScenarios }

\* a test that takes a missing file for a loaded one
config_assumed_found(loaded) == TRUE
\* 'if not config' is false: load_json_data('config.json') returned content
config_found(loaded) == loaded # NoneDict

\* config.get('initial_settings', {}) and the defaults of its four reads
settings_of(loaded) ==
    IF "initial_settings" \in DOMAIN loaded THEN loaded.initial_settings
    ELSE [metrics |-> EmptyDict, budget |-> 100, hr |-> 50, max_crises |-> 3]

\* initialize_game_state(), first script run of the session, with
\* config.json present or missing: st.stop() ends the run before any key is
\* stored
ContentInit ==
    /\ scenarios_data \in ContentScenarioFiles
    /\ config \in Configs \cup {NoneDict}
    /\ immediate_results = NoneDict
    /\ last_click = "none"
    /\ drawn_factor = 0
    /\ outcomes = <<>>
    /\ EditorIdle
    /\ IF config_found(config)
       THEN /\ game_initialized = "True"
            /\ screen = "start_game"
            /\ metrics = settings_of(config).metrics
            /\ budget = settings_of(config).budget
            /\ human_resources = settings_of(config).hr
            /\ max_crises = settings_of(config).max_crises
            /\ crisis_history = <<>>
            /\ news_ticker = <<[kind |-> "start", name |-> ""]>>
            /\ current_crisis_index = 0
            /\ crisis_sequence = <<>>
            /\ selected_scenario_id = NoScenario
            /\ decision = EmptyDict
            /\ results = NoneDict
       ELSE /\ game_initialized = "absent"
            /\ screen = NoKey
            /\ metrics = NoKey
            /\ budget = NoKey
            /\ human_resources = NoKey
            /\ max_crises = NoKey
            /\ crisis_history = NoKey
            /\ news_ticker = NoKey
            /\ current_crisis_index = NoKey
            /\ crisis_sequence = NoKey
            /\ selected_scenario_id = NoKey
            /\ decision = NoKey
            /\ results = NoKey

\* the clicks up to the decision of a crisis, and the sidebar
ContentNext ==
    \/ StartGame
    \/ StoryNext
    \/ AdvisorsNext
    \/ SelectAction
    \/ SkipTurn
    \/ EndGame

ContentSpec == ContentInit /\ [][ContentNext]_vars


\* a non-empty advisor list and a non-empty card list with unique ids
ValidatedAggregate(loaded) ==
    /\ Len(loaded.advisors) > 0
    /\ Len(loaded.action_cards) > 0
    /\ \A i, j \in 1..Len(loaded.action_cards) :
          loaded.action_cards[i].id = loaded.action_cards[j].id => i = j

\* C24: every scenario the loader exposes has a non-empty advisor list and a
\* non-empty action card list with unique ids, so every scenario of a
\* crisis_sequence can be played through the advisors screen to the decision
\* screen.
C24_LoadedScenariosAreValidated ==
    game_initialized = "True" =>
        /\ \A key \in DOMAIN get_scenarios : ValidatedAggregate(get_scenarios[key])
        /\ \A i \in 1..Len(crisis_sequence) :
              ValidatedAggregate(get_scenarios[crisis_sequence[i]])
        /\ screen = "advisors" => ENABLED AdvisorsNext

\* the key is in the file without 'advisors' or without 'action_cards'
LacksAKey(key) ==
    ~({"advisors", "action_cards"} \subseteq DOMAIN scenarios_data[key])

C26_NoStateWithoutConfig ==
    config = NoneDict =>
        /\ not_in_session(game_initialized)
        /\ screen = NoKey
        /\ metrics = NoKey
        /\ budget = NoKey
        /\ human_resources = NoKey
        /\ crisis_history = NoKey
        /\ news_ticker = NoKey
        /\ ~ENABLED StartGame
        /\ ~ENABLED ContentNext

\* a session whose config.json is missing, with two complete scenarios loaded
C26_Witness ==
    /\ config = NoneDict
    /\ not_in_session(game_initialized)
    /\ Cardinality(DOMAIN get_scenarios) = 2

-----------------------------------------------------------------------------
(* The delayed pass *)

\* C27: each execution of the delayed pass (one in the run that shows the
\* delayed screen, one in the run of the click on "see the report") changes
\* the results only: security and resilience rise by 10 when the pending
\* action is 'C' and by 5 otherwise, a skipped turn included, up to 100;
\* public trust falls by 0 or by 3, not below 0; freedom, fatigue,
\* counter_factual, budget and human_resources of the results stay, and so
\* do the session's budget, human resources, history, ticker and metrics
\* (the metrics until report_screen, rendered after the second execution,
\* commits the results).
C27_DelayedPassFrame ==
    [][last_click' \in {"some_time_later", "see_report"} =>
          LET bonus == IF "action" \in DOMAIN decision /\ decision["action"] = "C"
                       THEN 10 * Unit ELSE 5 * Unit
          IN  /\ results'.security = Min(100 * Unit, results.security + bonus)
              /\ results'.resilience = Min(100 * Unit, results.resilience + bonus)
              /\ results'.public_trust
                     \in {results.public_trust,
                          Max(0, results.public_trust - 3 * Unit)}
              /\ results'.freedom = results.freedom
              /\ results'.fatigue = results.fatigue
              /\ results'.counter_factual = results.counter_factual
              /\ results'.budget = results.budget
              /\ results'.human_resources = results.human_resources
              /\ DOMAIN results' = DOMAIN results
              /\ UNCHANGED <<budget, human_resources, crisis_history, news_ticker,
                             decision>>
              /\ last_click' = "some_time_later" => metrics' = metrics
              /\ last_click' = "see_report" => metrics' = results']_vars

\* the delayed screen after a skipped turn: one execution has added 5 to
\* the security and the resilience of the skip results
C27_Witness ==
    /\ screen = "delayed"
    /\ last_click = "some_time_later"
    /\ decision["action"] = "SKIP"
    /\ results.security = immediate_results.security + 5 * Unit
    /\ results.resilience = immediate_results.resilience + 5 * Unit
    /\ results.public_trust = immediate_results.public_trust - 3 * Unit
    /\ results.budget = budget

-----------------------------------------------------------------------------
(* Progress *)

\* the screens of a crisis
CrisisScreens ==
    {"story", "advisors", "decision", "immediate", "delayed", "report"}

\* the click that takes the game forward is offered on the screen
ForwardOffered ==
    CASE screen = "story" -> ENABLED StoryNext
      [] screen = "advisors" -> ENABLED AdvisorsNext
      [] screen = "decision" ->
            IF \E i \in 1..Len(scenario.action_cards) :
                  CanPay(scenario.action_cards[i])
            THEN IF "action" \in DOMAIN decision
                 THEN ENABLED ConfirmDecision
                 ELSE ENABLED SelectAction
            ELSE ENABLED SkipTurn
      [] screen = "immediate" -> ENABLED ImmediateNext
      [] screen = "delayed" -> ENABLED DelayedNext
      [] screen = "report" -> ENABLED ReportNext
      [] OTHER -> TRUE

\* C28 (safety part): on every screen of a crisis of a started game a click
\* that takes the game forward is offered (on the decision screen: choosing
\* and then applying a card when one is affordable, skipping the turn
\* otherwise), and current_crisis_index never passes the length of
\* crisis_sequence.
C28_ForwardAlwaysOffered ==
    game_initialized = "True" =>
        /\ screen \in CrisisScreens => ForwardOffered
        /\ current_crisis_index <= Len(crisis_sequence)

-----------------------------------------------------------------------------
(* The order of the crises *)

\* C29: on every screen of a crisis current_crisis_index is below the length
\* of crisis_sequence and the selected scenario is the entry of the sequence
\* at that index; so the crises are played in the order of the sequence, and
\* the scenarios played so far are pairwise different.
C29_CrisesInSequenceOrder ==
    screen \in CrisisScreens =>
        /\ current_crisis_index >= 0
        /\ current_crisis_index < Len(crisis_sequence)
        /\ selected_scenario_id = crisis_sequence[current_crisis_index + 1]
        /\ \A i, j \in 1..(current_crisis_index + 1) :
              crisis_sequence[i] = crisis_sequence[j] => i = j

\* the second crisis of a game is being decided: it is the second entry of
\* the sequence, not the first again
C29_Witness ==
    /\ screen = "decision"
    /\ current_crisis_index = 1
    /\ Len(crisis_sequence) = 2
    /\ selected_scenario_id = crisis_sequence[2]
    /\ selected_scenario_id # crisis_sequence[1]

-----------------------------------------------------------------------------
(* Resource accounting *)

\* the sum of a price over the outcomes
RECURSIVE Total(_, _)
Total(resolved, price) ==
    IF resolved = <<>> THEN 0
    ELSE resolved[1][price] + Total(Tail(resolved), price)

\* the outcome is the skip, or a card of the scenario of its crisis with
\* that card's prices
OutcomeOfCrisis(outcome, key) ==
    \/ outcome = [action |-> "SKIP", cost |-> 0, hr_cost |-> 0]
    \/ \E i \in 1..Len(get_scenarios[key].action_cards) :
          LET card == get_scenarios[key].action_cards[i]
          IN  outcome = [action |-> card.id, cost |-> card.cost,
                         hr_cost |-> card.hr_cost]

\* C30: in every state the budget is the initial budget less the costs of
\* the actions applied so far, and the human resources likewise with the
\* hr_costs; every crisis is resolved by exactly one outcome, an applied card
\* or a skip; the budget and the human resources never rise above what they
\* were and change with nothing but an applied action.
C30_ResourceAccounting ==
    /\ [](/\ budget = config.initial_settings.budget - Total(outcomes, "cost")
          /\ human_resources
                 = config.initial_settings.hr - Total(outcomes, "hr_cost")
          /\ Len(outcomes) <= Len(crisis_sequence)
          /\ \A i \in 1..Len(outcomes) :
                OutcomeOfCrisis(outcomes[i], crisis_sequence[i])
          /\ screen \in {"story", "advisors", "decision"} =>
                Len(outcomes) = current_crisis_index
          /\ screen \in {"immediate", "delayed", "report"} =>
                Len(outcomes) = current_crisis_index + 1
          /\ CompletedNaturally => Len(outcomes) = Len(crisis_sequence))
    /\ [][/\ budget' <= budget
          /\ human_resources' <= human_resources
          /\ budget' # budget \/ human_resources' # human_resources
                => /\ last_click' = "apply"
                   /\ budget' = budget - selected_card.cost
                   /\ human_resources' = human_resources - selected_card.hr_cost
          /\ outcomes' # outcomes
                => /\ last_click' \in {"apply", "skip_turn"}
                   /\ screen = "decision"
                   /\ screen' = "immediate"
                   /\ Len(outcomes') = Len(outcomes) + 1]_vars

\* a game of two crises that started with a budget of 40: the slow card was
\* applied in the first crisis and the second one was skipped
C30_Witness ==
    /\ CompletedNaturally
    /\ config.initial_settings.budget = 40
    /\ Len(outcomes) = 2
    /\ outcomes[1].action = "C"
    /\ outcomes[2].action = "SKIP"
    /\ budget = 0
    /\ human_resources = 20

-----------------------------------------------------------------------------
(* Content editor (editor.py).  One action is one script run of the editor: *)
(* the run a click, an upload or a changed widget causes, or the run        *)
(* st.rerun() asks for.  A dict of scenarios is the sequence, in the dict's *)
(* insertion order, of its entries [id, title]; ids are sequences of        *)
(* characters, so that the form's clean-up of a typed id can be computed.   *)

\* the game's session does not exist while the editor runs
GameIdle ==
    /\ scenarios_data = NoKey
    /\ config = NoKey
    /\ game_initialized = "absent"
    /\ screen = NoKey
    /\ metrics = NoKey
    /\ budget = NoKey
    /\ human_resources = NoKey
    /\ max_crises = NoKey
    /\ crisis_history = NoKey
    /\ news_ticker = NoKey
    /\ current_crisis_index = NoKey
    /\ crisis_sequence = NoKey
    /\ selected_scenario_id = NoKey
    /\ decision = NoKey
    /\ results = NoKey
    /\ immediate_results = NoKey
    /\ last_click = "none"
    /\ drawn_factor = 0
    /\ outcomes = <<>>

\* what the user may type as the id of a new scenario
TypedIds ==
    {<<"s", "1">>, <<"S", "1">>, <<" ", "s", "2", " ">>, <<" ">>, <<>>}
\* titles, in the order sorted() gives them; "" is an empty text input
SortedTitles == <<"T1", "T2">>
Titles == {SortedTitles[i] : i \in 1..Len(SortedTitles)}
TypedTitles == Titles \cup {""}
\* positions of the THREAT_SEVERITY slider (0..100) the user may choose
SliderPositions == {60, 80}

\* str.lower() on one character
lower(c) == IF c = "S" THEN "s" ELSE c

RECURSIVE lstrip(_)
\* str.lstrip()
lstrip(s) == IF s # <<>> /\ Head(s) = " " THEN lstrip(Tail(s)) ELSE s

RECURSIVE rstrip(_)
\* str.rstrip()
rstrip(s) ==
    IF s # <<>> /\ s[Len(s)] = " "
    THEN rstrip(SubSeq(s, 1, Len(s) - 1))
    ELSE s

\* text_input(...).lower().strip().replace(" ", "_")
new_id_of(typed) ==
    LET lowered == [i \in 1..Len(typed) |-> lower(typed[i])]
        stripped == rstrip(lstrip(lowered))
    IN  [i \in 1..Len(stripped) |->
            IF stripped[i] = " " THEN "_" ELSE stripped[i]]

\* json.dump(data): the text of a file
save_data(data) == [parses |-> TRUE, value |-> data]
\* json.load / json.loads of a text that parses
load_data(text) == text.value

\* the keys of a dict of scenarios
Keys(data) == {data[i].id : i \in 1..Len(data)}
\* the titles of a dict of scenarios
TitlesOf(data) == {data[i].title : i \in 1..Len(data)}

\* scenario_titles = {data['title']: key ...}[title]: the last key that has
\* the title
scenario_titles(data, title) ==
    LET last == CHOOSE i \in 1..Len(data) :
                   /\ data[i].title = title
                   /\ \A j \in (i + 1)..Len(data) : data[j].title # title
    IN  data[last].id

\* sorted(scenario_titles.keys())[0], the selectbox's default
first_title(data) ==
    LET first == CHOOSE i \in 1..Len(SortedTitles) :
                    /\ SortedTitles[i] \in TitlesOf(data)
                    /\ \A j \in 1..(i - 1) : SortedTitles[j] \notin TitlesOf(data)
    IN  SortedTitles[first]

\* get_default_scenario(title) stored under the key
get_default_scenario(key, title) == [id |-> key, title |-> title]

\* scenarios_data[new_id] = ...: a new key goes last
DictAdd(data, key, title) == Append(data, get_default_scenario(key, title))

\* del scenarios_data[key]
DictDel(data, key) == SelectSeq(data, LAMBDA e : e.id # key)

\* no widget of the editing form has been touched
NoWidgets == [selected_title |-> {}, title |-> {}, THREAT_SEVERITY |-> {}]

\* the title the selectbox of edit_scenarios returns
selected_title(data, w) ==
    IF w.selected_title # {}
    THEN CHOOSE t \in w.selected_title : TRUE
    ELSE first_title(data)

\* edit_scenarios(scenarios_data): the dict with the form's values applied
edit_scenarios(data, w) ==
    IF data = <<>> THEN <<>>
    ELSE LET selected_key == scenario_titles(data, selected_title(data, w))
         IN  [i \in 1..Len(data) |->
                 IF data[i].id = selected_key /\ w.title # {}
                 THEN [data[i] EXCEPT !.title = CHOOSE t \in w.title : TRUE]
                 ELSE data[i]]

\* edit_game_balance(config_data): the dict with the slider's value applied
edit_game_balance(cfg, w) ==
    IF w.THREAT_SEVERITY # {}
    THEN [cfg EXCEPT !.THREAT_SEVERITY = CHOOSE n \in w.THREAT_SEVERITY : TRUE]
    ELSE cfg

\* Streamlit keeps the state of the widgets a run renders: none of the
\* form's outside the edit mode; the selection while its title is an option;
\* the title field (keyed by scenario) while its scenario is selected
rendered(data, m, w) ==
    IF m # "edit" THEN NoWidgets
    ELSE IF data = <<>> \/ ~(w.selected_title \subseteq TitlesOf(data))
    THEN [NoWidgets EXCEPT !.THREAT_SEVERITY = w.THREAT_SEVERITY]
    ELSE w

\* the file uploader holds nothing
NoUpload ==
    [held |-> FALSE, readable |-> FALSE, names |-> {},
     scenarios |-> save_data(<<>>),
     config |-> save_data([THREAT_SEVERITY |-> 80])]

\* a member of a zip that is not JSON
NotJson(value) == [parses |-> FALSE, value |-> value]

\* the zips a user may upload: two complete backups, one without
\* config.json, an empty one, one per member that is not JSON, and a file
\* that is no zip
Backups ==
    LET both == {"scenarios.json", "config.json"}
        one == <<[id |-> <<"s", "1">>, title |-> "T2"]>>
        cfg == [THREAT_SEVERITY |-> 60]
    IN  { [held |-> TRUE, readable |-> TRUE, names |-> both,
           scenarios |-> save_data(one), config |-> save_data(cfg)],
          [held |-> TRUE, readable |-> TRUE, names |-> both,
           scenarios |-> save_data(<<>>), config |-> save_data(cfg)],
          [held |-> TRUE, readable |-> TRUE, names |-> {"scenarios.json"},
           scenarios |-> save_data(one), config |-> save_data(cfg)],
          [held |-> TRUE, readable |-> TRUE, names |-> {},
           scenarios |-> save_data(one), config |-> save_data(cfg)],
          [held |-> TRUE, readable |-> TRUE, names |-> both,
           scenarios |-> NotJson(one), config |-> save_data(cfg)],
          [held |-> TRUE, readable |-> TRUE, names |-> both,
           scenarios |-> save_data(one), config |-> NotJson(cfg)],
          [held |-> TRUE, readable |-> FALSE, names |-> both,
           scenarios |-> save_data(one), config |-> save_data(cfg)] }

\* a restore that writes each member as soon as it has parsed it
restore_member_by_member(scenarios_text, config_text, upload) ==
    IF ~upload.held
    THEN [scenarios |-> scenarios_text, config |-> config_text,
          message |-> "none"]
    ELSE IF ~upload.readable
    THEN [scenarios |-> scenarios_text, config |-> config_text,
          message |-> "error"]
    ELSE IF {"scenarios.json", "config.json"} \subseteq upload.names
    THEN IF ~upload.scenarios.parses
         THEN [scenarios |-> scenarios_text, config |-> config_text,
               message |-> "error"]
         ELSE IF ~upload.config.parses
         THEN [scenarios |-> save_data(load_data(upload.scenarios)),
               config |-> config_text, message |-> "error"]
         ELSE [scenarios |-> save_data(load_data(upload.scenarios)),
               config |-> save_data(load_data(upload.config)),
               message |-> "success"]
    ELSE [scenarios |-> scenarios_text, config |-> config_text,
          message |-> "missing"]

\* backup_and_restore_ui(), the restore branch: the two files and the
\* sidebar's message after it.  Every exception (no zip, a member that is
\* not JSON) is caught and reported; both members are parsed before either
\* file is written
backup_and_restore_ui(scenarios_text, config_text, upload) ==
    IF ~upload.held
    THEN [scenarios |-> scenarios_text, config |-> config_text,
          message |-> "none"]
    ELSE IF ~upload.readable
    THEN [scenarios |-> scenarios_text, config |-> config_text,
          message |-> "error"]
    ELSE IF {"scenarios.json", "config.json"} \subseteq upload.names
    THEN IF upload.scenarios.parses /\ upload.config.parses
         THEN [scenarios |-> save_data(load_data(upload.scenarios)),
               config |-> save_data(load_data(upload.config)),
               message |-> "success"]
         ELSE [scenarios |-> scenarios_text, config |-> config_text,
               message |-> "error"]
    ELSE [scenarios |-> scenarios_text, config |-> config_text,
          message |-> "missing"]

\* the first script run of an editor session over content files that exist:
\* mode is set to 'edit', nothing is uploaded, no widget is touched
EditorInit ==
    /\ GameIdle
    /\ SCENARIOS_FILE \in
          { save_data(<<[id |-> <<"s", "1">>, title |-> "T1"]>>),
            save_data(<<[id |-> <<"s", "1">>, title |-> "T1"],
                        [id |-> <<"s", "2">>, title |-> "T2"]>>) }
    /\ CONFIG_FILE = save_data([THREAT_SEVERITY |-> THREAT_SEVERITY])
    /\ mode = "edit"
    /\ uploaded_file = NoUpload
    /\ widgets = NoWidgets
    /\ rerun_pending = FALSE
    /\ sidebar_message = "none"
    /\ editor_click = "none"
    /\ created = {}

\* main() from the restore branch on, in a run whose click (if any) wrote
\* nothing: the restore, then the content area drawn from the data loaded at
\* the top of the run
RunWithoutWrite(upload, w) ==
    LET restored == backup_and_restore_ui(SCENARIOS_FILE, CONFIG_FILE, upload)
    IN  /\ SCENARIOS_FILE' = restored.scenarios
        /\ CONFIG_FILE' = restored.config
        /\ sidebar_message' = restored.message
        /\ uploaded_file' = upload
        /\ widgets' = rendered(load_data(SCENARIOS_FILE), mode, w)
        /\ UNCHANGED mode

\* one of the three mode buttons of the sidebar: the handler sets the mode
\* and calls st.rerun(), which ends the run before the restore branch
ClickMode ==
    /\ ~rerun_pending
    /\ editor_click' = "mode"
    /\ \E m \in {"edit", "add", "delete"} : mode' = m
    /\ rerun_pending' = TRUE
    /\ sidebar_message' = "none"
    /\ UNCHANGED <<SCENARIOS_FILE, CONFIG_FILE, uploaded_file, widgets, created>>
    /\ UNCHANGED game_vars

\* the script run st.rerun() asked for: no button is clicked in it
Rerun ==
    /\ rerun_pending
    /\ editor_click' = "rerun"
    /\ rerun_pending' = FALSE
    /\ RunWithoutWrite(uploaded_file, widgets)
    /\ UNCHANGED created
    /\ UNCHANGED game_vars

\* the user puts a file into the uploader
Upload ==
    /\ ~rerun_pending
    /\ editor_click' = "upload"
    /\ \E zip \in Backups : RunWithoutWrite(zip, widgets)
    /\ created' = {}
    /\ UNCHANGED rerun_pending
    /\ UNCHANGED game_vars

\* the user takes the file out of the uploader
RemoveUpload ==
    /\ ~rerun_pending
    /\ uploaded_file.held
    /\ editor_click' = "remove_upload"
    /\ RunWithoutWrite(NoUpload, widgets)
    /\ UNCHANGED <<rerun_pending, created>>
    /\ UNCHANGED game_vars

\* the user changes one widget of the editing form: the selectbox (another
\* scenario's title field is then drawn), the title field or the slider
EnterValue ==
    /\ ~rerun_pending
    /\ mode = "edit"
    /\ editor_click' = "enter"
    /\ LET data == load_data(SCENARIOS_FILE)
       IN  \/ \E t \in TitlesOf(data) :
                 RunWithoutWrite(uploaded_file,
                     [widgets EXCEPT !.selected_title = {t}, !.title = {}])
           \/ /\ data # <<>>
              /\ \E t \in Titles :
                    RunWithoutWrite(uploaded_file,
                                    [widgets EXCEPT !.title = {t}])
           \/ \E n \in SliderPositions :
                 RunWithoutWrite(uploaded_file,
                                 [widgets EXCEPT !.THREAT_SEVERITY = {n}])
    /\ UNCHANGED <<rerun_pending, created>>
    /\ UNCHANGED game_vars

\* "save all changes" clicked: in the edit mode the handler saves the two
\* dicts this run loaded; the run goes on with the restore branch and the
\* content area
SaveAll ==
    /\ ~rerun_pending
    /\ editor_click' = "save_all"
    /\ LET scenarios_text == IF mode = "edit"
                             THEN save_data(load_data(SCENARIOS_FILE))
                             ELSE SCENARIOS_FILE
           config_text == IF mode = "edit"
                          THEN save_data(load_data(CONFIG_FILE))
                          ELSE CONFIG_FILE
           restored == backup_and_restore_ui(scenarios_text, config_text,
                                             uploaded_file)
       IN  /\ SCENARIOS_FILE' = restored.scenarios
           /\ CONFIG_FILE' = restored.config
           /\ sidebar_message' = restored.message
    /\ widgets' = rendered(load_data(SCENARIOS_FILE), mode, widgets)
    /\ UNCHANGED <<mode, uploaded_file, rerun_pending, created>>
    /\ UNCHANGED game_vars

\* add_scenario_ui, the form submitted: the restore branch has run before
\* it, and the dict it extends and saves was loaded at the top of the run
SubmitAdd ==
    /\ ~rerun_pending
    /\ mode = "add"
    /\ editor_click' = "add"
    /\ \E typed \in TypedIds, new_title \in TypedTitles :
          LET data == load_data(SCENARIOS_FILE)
              restored == backup_and_restore_ui(SCENARIOS_FILE, CONFIG_FILE,
                                                uploaded_file)
              new_id == new_id_of(typed)
          IN  /\ CONFIG_FILE' = restored.config
              /\ sidebar_message' = restored.message
              /\ IF new_id = <<>> \/ new_title = "" \/ new_id \in Keys(data)
                 THEN /\ SCENARIOS_FILE' = restored.scenarios
                      /\ UNCHANGED <<mode, rerun_pending, created>>
                 ELSE /\ SCENARIOS_FILE' =
                             save_data(DictAdd(data, new_id, new_title))
                      /\ mode' = "edit"
                      /\ rerun_pending' = TRUE
                      /\ created' = created \cup {new_id}
    /\ widgets' = rendered(load_data(SCENARIOS_FILE), "add", widgets)
    /\ UNCHANGED uploaded_file
    /\ UNCHANGED game_vars

\* delete_scenario_ui, the delete button clicked for a title of the
\* selectbox: as in the add form, after the restore branch and on the dict
\* loaded at the top of the run
DeleteScenario ==
    /\ ~rerun_pending
    /\ mode = "delete"
    /\ editor_click' = "delete"
    /\ LET data == load_data(SCENARIOS_FILE)
           restored == backup_and_restore_ui(SCENARIOS_FILE, CONFIG_FILE,
                                             uploaded_file)
       IN  /\ data # <<>>
           /\ \E title \in TitlesOf(data) :
                 LET selected_key_to_delete == scenario_titles(data, title)
                 IN  /\ SCENARIOS_FILE' =
                            save_data(DictDel(data, selected_key_to_delete))
                     /\ created' = created \ {selected_key_to_delete}
           /\ CONFIG_FILE' = restored.config
           /\ sidebar_message' = restored.message
    /\ mode' = "edit"
    /\ rerun_pending' = TRUE
    /\ widgets' = rendered(load_data(SCENARIOS_FILE), "delete", widgets)
    /\ UNCHANGED uploaded_file
    /\ UNCHANGED game_vars

EditorNext ==
    \/ ClickMode
    \/ Rerun
    \/ Upload
    \/ RemoveUpload
    \/ EnterValue
    \/ SaveAll
    \/ SubmitAdd
    \/ DeleteScenario

EditorSpec == EditorInit /\ [][EditorNext]_vars

\* C31: in the edit mode and with nothing in the uploader, after a click on
\* "save all changes" the two files hold what the editing form showed in
\* that run: the loaded dicts with the entered values applied.
C31_SavePersistsTheForm ==
    [][editor_click' = "save_all" /\ mode = "edit" /\ ~uploaded_file.held
          => /\ load_data(SCENARIOS_FILE')
                  = edit_scenarios(load_data(SCENARIOS_FILE), widgets')
             /\ load_data(CONFIG_FILE')
                  = edit_game_balance(load_data(CONFIG_FILE), widgets')]_vars

\* the two files hold exactly the members of the zip
RestoredFrom(zip) ==
    /\ load_data(SCENARIOS_FILE) = load_data(zip.scenarios)
    /\ load_data(CONFIG_FILE) = load_data(zip.config)

\* the zip has both members and both are JSON
ValidBackup(zip) ==
    /\ zip.held
    /\ zip.readable
    /\ {"scenarios.json", "config.json"} \subseteq zip.names
    /\ zip.scenarios.parses
    /\ zip.config.parses

\* the runs in which nothing but the restore branch can write a file
RestoreOnlyRuns == {"upload", "rerun", "enter", "remove_upload"}

\* C32: a script run whose upload is a zip with both files, both JSON,
\* leaves the two files equal to the zip's members; a run whose upload is
\* anything else shows an error, and unless a handler of that run saved
\* something itself, both files are after it what they were before.
C32_RestoreAllOrNothing ==
    [][/\ editor_click' \in RestoreOnlyRuns /\ ValidBackup(uploaded_file')
            => /\ RestoredFrom(uploaded_file)'
               /\ sidebar_message' = "success"
       /\ editor_click' \in RestoreOnlyRuns /\ ~ValidBackup(uploaded_file')
            => /\ SCENARIOS_FILE' = SCENARIOS_FILE
               /\ CONFIG_FILE' = CONFIG_FILE
               /\ uploaded_file'.held
                     => sidebar_message' \in {"error", "missing"}
       /\ editor_click' \in {"save_all", "add", "delete"}
          /\ ~ValidBackup(uploaded_file')
            => /\ load_data(CONFIG_FILE') = load_data(CONFIG_FILE)
               /\ uploaded_file'.held
                     => sidebar_message' \in {"error", "missing"}]_vars

\* a zip whose scenarios.json is JSON and differs from the file on disk, but
\* whose config.json is not JSON, has just been uploaded and refused
C32_Witness ==
    /\ editor_click = "upload"
    /\ uploaded_file.held /\ uploaded_file.readable
    /\ uploaded_file.scenarios.parses
    /\ ~uploaded_file.config.parses
    /\ load_data(uploaded_file.scenarios) # load_data(SCENARIOS_FILE)
    /\ sidebar_message = "error"

\* C33: every scenario the add form created, and that was neither deleted
\* nor followed by a newly uploaded backup, is in scenarios.json after every
\* script run.
C33_CreatedScenarioRemains ==
    created \subseteq Keys(load_data(SCENARIOS_FILE))

====
